---- MODULE Spec2Model ----
(***************************************************************************)
(* The migration Manager of coral-server (src/unnamed/part_000): discovery *)
(* and ordering of migration units, pending(), currentMigration(),         *)
(* skipPendingMigrations() and executePendingMigrations().                 *)
(*                                                                         *)
(* Every await of the two entry points is one step of a call frame.  The  *)
(* record store (coral-server/models/migration), the Tenant Source         *)
(* (TenantCache) and the Migration base class are not part of the sources  *)
(* at hand; they are modelled from the specification (sections 4.2, 6).    *)
(***************************************************************************)
EXTENDS Integers, Sequences, FiniteSets, TLC

\* ------------------------------------------------------------------ bounds
MaxVersion == 2
MaxTenants == 2
MaxFiles == 4
MaxCalls == 2

Versions == 1..MaxVersion

VARIABLES
    manager,    \* the Manager instance of the running process
    records,    \* the migration record store, in stored order
    tenants,    \* what the Tenant Source yields when iterated now
    calls,      \* the invocations in flight or just settled, one frame each
    trace,      \* their record-store calls and hook invocations, in order
    readdir,    \* what readdirSync gives the constructor (constructor runs)
    upped,      \* the (version, tenant) pairs up has been invoked for, ever
    reupped     \* those it has been invoked for more than once

vars == <<manager, records, tenants, calls, trace, readdir, upped, reupped>>

\* ------------------------------------------------------- sequence helpers
Range(s) == {s[i] : i \in 1..Len(s)}

Last(s) == s[Len(s)]

\* ------------------------------------------------------------- discovery
\* A directory entry: the leading digit run of its name, its extension and
\* the hooks its default export has.
File(digits, ext, test, down) ==
    [digits |-> digits, ext |-> ext, test |-> test, down |-> down]

\* /^(\d+)_([\S_]+)\.[tj]s$/
fileNamePattern(f) == Len(f.digits) > 0 /\ f.ext \in {"ts", "js"}

RECURSIVE parseInt(_)
\* parseInt(matches[1], 10)
parseInt(digits) ==
    IF digits = <<>> THEN 0
    ELSE 10 * parseInt(SubSeq(digits, 1, Len(digits) - 1)) + Last(digits)

\* new m.default(version, matches[2])
Migration(f) ==
    [version |-> parseInt(f.digits), test |-> f.test, down |-> f.down]

\* a comparator that orders the versions downwards
compareDescending(a, b) ==
    IF a.version > b.version THEN -1
    ELSE IF a.version < b.version THEN 1
    ELSE 0

\* the comparator handed to Array.prototype.sort
compare(a, b) ==
    IF a.version < b.version THEN -1
    ELSE IF a.version > b.version THEN 1
    ELSE 0

\* an insertion that keeps one unit per version
InsertDistinct(sorted, m) ==
    IF \E i \in 1..Len(sorted) : sorted[i].version = m.version
    THEN sorted
    ELSE SelectSeq(sorted, LAMBDA x : x.version < m.version)
         \o <<m>>
         \o SelectSeq(sorted, LAMBDA x : x.version > m.version)

RECURSIVE Insert(_, _)
Insert(sorted, m) ==
    IF sorted = <<>> THEN <<m>>
    ELSE IF compare(m, Last(sorted)) < 0
         THEN Append(Insert(SubSeq(sorted, 1, Len(sorted) - 1), m), Last(sorted))
         ELSE Append(sorted, m)

RECURSIVE sort(_)
\* this.migrations.sort(...): a stable sort under the comparator
sort(s) ==
    IF s = <<>> THEN <<>>
    ELSE Insert(sort(SubSeq(s, 1, Len(s) - 1)), Last(s))

RECURSIVE Load(_)
\* the for loop of the constructor: files that do not match are skipped
Load(fileNames) ==
    IF fileNames = <<>> THEN <<>>
    ELSE LET f == Head(fileNames) IN
         IF fileNamePattern(f)
         THEN <<Migration(f)>> \o Load(Tail(fileNames))
         ELSE Load(Tail(fileNames))

Constructor(fileNames) ==
    [migrations |-> sort(Load(fileNames)), ran |-> FALSE]

\* ---------------------------------------------------------- record store
Record(version, status) == [version |-> version, status |-> status]

retrieveAllMigrationRecords(mongo) == mongo

createMigrationRecord(mongo, version) ==
    Append(mongo, Record(version, "completed"))

createFailedMigrationRecord(mongo, version) ==
    Append(mongo, Record(version, "failed"))

createSkippedMigrationRecords(mongo, versions) ==
    mongo \o [i \in 1..Len(versions) |-> Record(versions[i], "skipped")]

\* --------------------------------------------------------------- errors
NoError == [kind |-> "none"]
AlreadyRan == [kind |-> "pending migrations have already been executed"]
SkipNotEmpty == [kind |-> "tried to skip migrations"]
FailedMigrationDetectedError(record) ==
    [kind |-> "FailedMigrationDetectedError", record |-> record]
HookError(hook, version, tenant) ==
    [kind |-> "hook", hook |-> hook, version |-> version, tenant |-> tenant]

\* ------------------------------------------------------ pending, current
FailedIndexes(recs) == {i \in 1..Len(recs) : recs[i].status = "failed"}

\* records.forEach(...) throws at the first failed record
FirstFailed(recs) ==
    recs[CHOOSE i \in FailedIndexes(recs) : \A j \in FailedIndexes(recs) : i <= j]

\* the failed check of pending() left out
FailedDetectedNever(recs) == FALSE

\* lines 91-95: is there a record with record.failed
FailedDetected(recs) == FailedIndexes(recs) # {}

\* pending() that takes only completed records for applied
pendingButSkipped(migrations, recs) ==
    SelectSeq(migrations,
              LAMBDA m : ~(\E i \in 1..Len(recs) :
                              /\ recs[i].version = m.version
                              /\ recs[i].status = "completed"))

\* this.migrations.filter(m => !records.find(r => m.version === r.version))
pending(migrations, recs) ==
    SelectSeq(migrations,
              LAMBDA m : ~(\E i \in 1..Len(recs) : recs[i].version = m.version))

NoRecord == Record(0, "none")

\* currentMigration() that takes a store of one record for empty
currentMigrationOffByOne(recs) == IF Len(recs) > 1 THEN Last(recs) ELSE NoRecord

\* the first record in stored order instead of the last
currentMigrationFirst(recs) == IF Len(recs) > 0 THEN recs[1] ELSE NoRecord

\* lines 103-106
currentMigration(recs) == IF Len(recs) > 0 THEN Last(recs) ELSE NoRecord

\* ------------------------------------------------------------ call frames
\* Where a frame is suspended: the line of the await it waits on.  ranBefore
\* and store0 remember the flag and the record store as the invocation found
\* them, prev how the invocation before it ended.
Frame(entry, pc, result) ==
    [entry |-> entry, pc |-> pc, result |-> result,
     current |-> NoRecord, pending |-> <<>>, mi |-> 0,
     iter |-> <<>>, ti |-> 0, err |-> NoError,
     ranBefore |-> manager.ran, store0 |-> records,
     prev |-> IF calls = <<>> THEN "none" ELSE calls[Len(calls)].pc]

\* A settled invocation leaves nothing behind but the flag and the records:
\* its frame and its part of the trace are dropped when the next one begins.
Begin(frame) == IF \A c \in 1..Len(calls) : calls[c].pc \in {"returned", "threw"}
                THEN <<frame>>
                ELSE Append(calls, frame)

BeginTrace == IF \A c \in 1..Len(calls) : calls[c].pc \in {"returned", "threw"}
              THEN <<>>
              ELSE trace

Settled(c) == calls[c].pc \in {"returned", "threw"}

\* single logical thread of control: no invocation overlaps another
Quiescent == \A c \in 1..Len(calls) : Settled(c)

Event(c, op, versions, tenant, ok) ==
    [call |-> c, op |-> op, versions |-> versions, tenant |-> tenant, ok |-> ok]

ReadEvent(c) == Event(c, "retrieveAllMigrationRecords", <<>>, 0, TRUE)

\* the Tenant Source asked for its tenants, for the migration of a version
IterEvent(c, version, yielded) ==
    [call |-> c, op |-> "tenants", versions |-> <<version>>, tenant |-> 0,
     ok |-> TRUE, yielded |-> yielded]

Throw(c, error) == [calls EXCEPT ![c].pc = "threw", ![c].result = error]

CurMigration(c) == calls[c].pending[calls[c].mi]

CurTenant(c) == calls[c].iter[calls[c].ti]

\* --------------------------------------------------------- environment
Caps == [test : BOOLEAN, down : BOOLEAN]

\* the unit file of version v; every other name is zero-padded
UnitFile(v, caps) ==
    File(IF v % 2 = 0 THEN <<0, v>> ELSE <<v>>, "ts", caps.test, caps.down)

Junk == <<File(<<1>>, "map", FALSE, FALSE), File(<<>>, "ts", FALSE, FALSE)>>

Reverse(s) == [i \in 1..Len(s) |-> s[Len(s) + 1 - i]]

\* what the migrations folder may hold: for some of the versions a unit
\* file with some set of hooks
Folders == UNION {[S -> Caps] : S \in SUBSET Versions}

RECURSIVE Ascending(_, _)
\* the unit files of a folder from version v on, in version order
Ascending(folder, v) ==
    IF v > MaxVersion THEN <<>>
    ELSE (IF v \in DOMAIN folder THEN <<UnitFile(v, folder[v])>> ELSE <<>>)
         \o Ascending(folder, v + 1)

\* the directory listings a process may find: the unit files of a folder
\* among files that are no migrations, enumerated in either direction
\* (readdirSync promises no order)
Listings ==
    UNION {{Junk \o Ascending(folder, 1), Reverse(Junk \o Ascending(folder, 1))} :
             folder \in Folders}

\* ------------------------------------------------------------------ Init
Init ==
    /\ manager \in {Constructor(fileNames) : fileNames \in Listings}
    /\ records = <<>>
    /\ tenants \in {[i \in 1..n |-> i] : n \in 0..MaxTenants}
    /\ calls = <<>>
    /\ trace = <<>>
    /\ readdir = <<>>
    /\ upped = {}
    /\ reupped = {}

\* the process ends (a failed run is meant to crash it): its Manager and
\* whatever its invocations left in memory go with it
NoManager == [migrations |-> <<>>, ran |-> TRUE, gone |-> TRUE]

ProcessExit ==
    /\ Quiescent
    /\ manager # NoManager
    /\ manager.ran
    /\ manager' = NoManager
    /\ calls' = <<>>
    /\ trace' = <<>>
    /\ UNCHANGED <<records, tenants, readdir, upped, reupped>>

\* a new process: new Manager(tenants)
NewManager(fileNames) ==
    /\ manager = NoManager
    /\ manager' = Constructor(fileNames)
    /\ UNCHANGED <<records, tenants, calls, trace, readdir, upped, reupped>>

\* a tenant is added to the Tenant Source.  The engine looks at the source
\* at line 176 only, so a change at any other moment is the same change
\* made just before the next look.
TenantAdded ==
    /\ Len(tenants) < MaxTenants
    /\ \E c \in 1..Len(calls) : calls[c].pc = "L176"
    /\ tenants' = Append(tenants, Len(tenants) + 1)
    /\ UNCHANGED <<manager, records, calls, trace, readdir, upped, reupped>>

\* -------------------------------------------------- skipPendingMigrations
\* lines 108-118: the guard, the flag, up to the first await
EnterSkip ==
    /\ manager # NoManager
    /\ IF manager.ran
       THEN /\ calls' = Begin(Frame("skip", "threw", AlreadyRan))
            /\ UNCHANGED manager
       ELSE /\ manager' = [manager EXCEPT !.ran = TRUE]
            /\ calls' = Begin(Frame("skip", "L118", NoError))
    /\ trace' = BeginTrace
    /\ UNCHANGED <<records, tenants, readdir, upped, reupped>>

\* skipPendingMigrations invoked while no other invocation is in flight
InvokeSkip ==
    /\ Quiescent
    /\ EnterSkip

\* skipPendingMigrations without the check of the current migration
SkipCurrentMigrationUnchecked(c) ==
    /\ calls[c].entry = "skip" /\ calls[c].pc = "L118"
    /\ calls' = [calls EXCEPT ![c].pc = "L126"]
    /\ trace' = Append(trace, ReadEvent(c))
    /\ UNCHANGED <<manager, records, tenants, readdir, upped, reupped>>

\* lines 118-126: await this.currentMigration(mongo) settles
SkipCurrentMigration(c) ==
    /\ calls[c].entry = "skip" /\ calls[c].pc = "L118"
    /\ LET cur == currentMigration(retrieveAllMigrationRecords(records)) IN
       calls' = IF cur # NoRecord
                THEN Throw(c, SkipNotEmpty)
                ELSE [calls EXCEPT ![c].pc = "L126", ![c].current = cur]
    /\ trace' = Append(trace, ReadEvent(c))
    /\ UNCHANGED <<manager, records, tenants, readdir, upped, reupped>>

\* the versions to skip, short of the last one
SkipVersionsButLast(migrations) ==
    [i \in 1..(Len(migrations) - 1) |-> migrations[i].version]

\* line 128: this.migrations.map(migration => migration.version)
SkipVersions(migrations) ==
    [i \in 1..Len(migrations) |-> migrations[i].version]

\* lines 126-135: await createSkippedMigrationRecords(...) settles
SkipCreateRecords(c) ==
    /\ calls[c].entry = "skip" /\ calls[c].pc = "L126"
    /\ LET migrations == manager.migrations
           versions == SkipVersions(migrations)
       IN /\ records' = createSkippedMigrationRecords(records, versions)
          /\ trace' = Append(trace,
                 Event(c, "createSkippedMigrationRecords", versions, 0, TRUE))
    /\ calls' = [calls EXCEPT ![c].pc = "returned"]
    /\ UNCHANGED <<manager, tenants, readdir, upped, reupped>>

\* ----------------------------------------------- executePendingMigrations
\* a guard that checks the flag and never sets it
EnterExecuteFlagNeverSet ==
    /\ manager # NoManager
    /\ calls' = IF manager.ran
                THEN Begin(Frame("execute", "threw", AlreadyRan))
                ELSE Begin(Frame("execute", "L147", NoError))
    /\ trace' = BeginTrace
    /\ UNCHANGED <<manager, records, tenants, readdir, upped, reupped>>

\* lines 137-147: the guard, the flag, up to the first await
EnterExecute ==
    /\ manager # NoManager
    /\ IF manager.ran
       THEN /\ calls' = Begin(Frame("execute", "threw", AlreadyRan))
            /\ UNCHANGED manager
       ELSE /\ manager' = [manager EXCEPT !.ran = TRUE]
            /\ calls' = Begin(Frame("execute", "L147", NoError))
    /\ trace' = BeginTrace
    /\ UNCHANGED <<records, tenants, readdir, upped, reupped>>

\* executePendingMigrations without the guard of lines 139-141
InvokeExecuteUnguarded ==
    /\ Quiescent
    /\ manager # NoManager
    /\ manager' = [manager EXCEPT !.ran = TRUE]
    /\ calls' = Begin(Frame("execute", "L147", NoError))
    /\ trace' = BeginTrace
    /\ UNCHANGED <<records, tenants, readdir, upped, reupped>>

\* executePendingMigrations invoked while no other invocation is in flight
InvokeExecute ==
    /\ Quiescent
    /\ EnterExecute

\* line 147: await this.currentMigration(mongo) settles
ExecCurrentMigration(c) ==
    /\ calls[c].entry = "execute" /\ calls[c].pc = "L147"
    /\ calls' = [calls EXCEPT
           ![c].pc = "L150",
           ![c].current = currentMigration(retrieveAllMigrationRecords(records))]
    /\ trace' = Append(trace, ReadEvent(c))
    /\ UNCHANGED <<manager, records, tenants, readdir, upped, reupped>>

\* lines 150-167: await this.pending(mongo) settles
ExecPending(c) ==
    /\ calls[c].entry = "execute" /\ calls[c].pc = "L150"
    /\ LET recs == retrieveAllMigrationRecords(records)
           todo == pending(manager.migrations, recs)
       IN calls' =
            IF FailedDetected(recs)
            THEN Throw(c, FailedMigrationDetectedError(FirstFailed(recs)))
            ELSE IF Len(todo) = 0
            THEN [calls EXCEPT ![c].pc = "returned"]
            ELSE [calls EXCEPT ![c].pc = "L176", ![c].pending = todo, ![c].mi = 1]
    /\ trace' = Append(trace, ReadEvent(c))
    /\ UNCHANGED <<manager, records, tenants, readdir, upped, reupped>>

\* a tenant loop that leaves a migration without tenants unrecorded
ExecIterateSkipsEmpty(c) ==
    /\ calls[c].entry = "execute" /\ calls[c].pc = "L176"
    /\ calls' = IF Len(tenants) > 0
                THEN [calls EXCEPT ![c].iter = tenants, ![c].ti = 1, ![c].pc = "L184"]
                ELSE IF calls[c].mi < Len(calls[c].pending)
                THEN [calls EXCEPT ![c].iter = tenants, ![c].mi = @ + 1]
                ELSE [calls EXCEPT ![c].iter = tenants, ![c].pc = "L221"]
    /\ trace' = Append(trace, IterEvent(c, CurMigration(c).version, tenants))
    /\ UNCHANGED <<manager, records, tenants, readdir, upped, reupped>>

\* a tenant loop that asks the Tenant Source once and keeps what it yielded
ExecIterateCached(c) ==
    /\ calls[c].entry = "execute" /\ calls[c].pc = "L176"
    /\ LET yielded == IF calls[c].mi > 1 THEN calls[c].iter ELSE tenants IN
       /\ calls' = [calls EXCEPT
              ![c].iter = yielded,
              ![c].ti = 1,
              ![c].pc = IF Len(yielded) = 0 THEN "L216" ELSE "L184"]
       /\ trace' = Append(trace, IterEvent(c, CurMigration(c).version, yielded))
    /\ UNCHANGED <<manager, records, tenants, readdir, upped, reupped>>

\* line 176: for await (const tenant of this.tenants) asks the Tenant Source
ExecIterate(c) ==
    /\ calls[c].entry = "execute" /\ calls[c].pc = "L176"
    /\ calls' = [calls EXCEPT
           ![c].iter = tenants,
           ![c].ti = 1,
           ![c].pc = IF Len(tenants) = 0 THEN "L216" ELSE "L184"]
    /\ trace' = Append(trace, IterEvent(c, CurMigration(c).version, tenants))
    /\ UNCHANGED <<manager, records, tenants, readdir, upped, reupped>>

\* the tenant loop left after its first tenant
NextTenantFirstOnly(c) == [calls EXCEPT ![c].pc = "L216"]

\* lines 211-213 and the loop head: on to the next tenant, or out of the loop
NextTenant(c) ==
    IF calls[c].ti < Len(calls[c].iter)
    THEN [calls EXCEPT ![c].ti = @ + 1, ![c].pc = "L184"]
    ELSE [calls EXCEPT ![c].pc = "L216"]

\* a catch block that swallows the error and goes on with the loop
CatchAndContinue(c, error) == NextTenant(c)

\* a catch block that never rolls back
CatchWithoutRollback(c, error) ==
    [calls EXCEPT ![c].err = error, ![c].pc = "L205"]

\* lines 190-202: the catch block up to its first await
Catch(c, error) ==
    [calls EXCEPT ![c].err = error,
                  ![c].pc = IF CurMigration(c).down THEN "L196" ELSE "L205"]

\* an up whose success is followed by test whether the unit has it or not
UpSettlesAlwaysTests(c, ok) ==
    /\ calls[c].entry = "execute" /\ calls[c].pc = "L184"
    /\ LET m == CurMigration(c)
           t == CurTenant(c)
       IN /\ trace' = Append(trace, Event(c, "up", <<m.version>>, t, ok))
          /\ calls' = IF ok
                      THEN [calls EXCEPT ![c].pc = "L188"]
                      ELSE Catch(c, HookError("up", m.version, t))
    /\ UNCHANGED <<manager, records, tenants, readdir>>

\* line 184: await migration.up(mongo, tenant.id) settles
UpSettles(c, ok) ==
    /\ calls[c].entry = "execute" /\ calls[c].pc = "L184"
    /\ LET m == CurMigration(c)
           t == CurTenant(c)
       IN /\ trace' = Append(trace, Event(c, "up", <<m.version>>, t, ok))
          /\ calls' = IF ok
                      THEN IF m.test
                           THEN [calls EXCEPT ![c].pc = "L188"]
                           ELSE NextTenant(c)
                      ELSE Catch(c, HookError("up", m.version, t))
    /\ UNCHANGED <<manager, records, tenants, readdir>>

ExecUp(c, ok) ==
    /\ UpSettles(c, ok)
    /\ UNCHANGED <<upped, reupped>>

\* the same step, with the invocation of up entered in the history
ExecUpCounted(c, ok) ==
    /\ UpSettles(c, ok)
    /\ LET pair == <<CurMigration(c).version, CurTenant(c)>> IN
       /\ upped' = upped \cup {pair}
       /\ reupped' = IF pair \in upped THEN reupped \cup {pair} ELSE reupped

\* line 188: await migration.test(mongo, tenant.id) settles
ExecTest(c, ok) ==
    /\ calls[c].entry = "execute" /\ calls[c].pc = "L188"
    /\ LET m == CurMigration(c)
           t == CurTenant(c)
       IN /\ trace' = Append(trace, Event(c, "test", <<m.version>>, t, ok))
          /\ calls' = IF ok
                      THEN NextTenant(c)
                      ELSE Catch(c, HookError("test", m.version, t))
    /\ UNCHANGED <<manager, records, tenants, readdir, upped, reupped>>

\* line 196: await migration.down(mongo, tenant.id) settles; its own failure
\* leaves the catch block at once
ExecDown(c, ok) ==
    /\ calls[c].entry = "execute" /\ calls[c].pc = "L196"
    /\ LET m == CurMigration(c)
           t == CurTenant(c)
       IN /\ trace' = Append(trace, Event(c, "down", <<m.version>>, t, ok))
          /\ calls' = IF ok
                      THEN [calls EXCEPT ![c].pc = "L205"]
                      ELSE Throw(c, HookError("down", m.version, t))
    /\ UNCHANGED <<manager, records, tenants, readdir, upped, reupped>>

\* a failed record after which the run goes on with the next tenant
ExecFailedRecordAndGoOn(c) ==
    /\ calls[c].entry = "execute" /\ calls[c].pc = "L205"
    /\ LET v == CurMigration(c).version IN
       /\ records' = createFailedMigrationRecord(records, v)
       /\ trace' = Append(trace,
              Event(c, "createFailedMigrationRecord", <<v>>, 0, TRUE))
    /\ calls' = NextTenant(c)
    /\ UNCHANGED <<manager, tenants, readdir, upped, reupped>>

\* lines 205-208: await createFailedMigrationRecord settles; throw err
ExecFailedRecord(c) ==
    /\ calls[c].entry = "execute" /\ calls[c].pc = "L205"
    /\ LET v == CurMigration(c).version IN
       /\ records' = createFailedMigrationRecord(records, v)
       /\ trace' = Append(trace,
              Event(c, "createFailedMigrationRecord", <<v>>, 0, TRUE))
    /\ calls' = Throw(c, calls[c].err)
    /\ UNCHANGED <<manager, tenants, readdir, upped, reupped>>

\* a loop over the pending migrations that leaves the last one unrecorded
ExecCompletedRecordButLast(c) ==
    /\ calls[c].entry = "execute" /\ calls[c].pc = "L216"
    /\ IF calls[c].mi < Len(calls[c].pending)
       THEN /\ records' = createMigrationRecord(records, CurMigration(c).version)
            /\ trace' = Append(trace, Event(c, "createMigrationRecord",
                                           <<CurMigration(c).version>>, 0, TRUE))
            /\ calls' = [calls EXCEPT ![c].mi = @ + 1, ![c].pc = "L176"]
       ELSE /\ calls' = [calls EXCEPT ![c].pc = "L221"]
            /\ UNCHANGED <<records, trace>>
    /\ UNCHANGED <<manager, tenants, readdir, upped, reupped>>

\* line 216: await createMigrationRecord settles; next pending migration
ExecCompletedRecord(c) ==
    /\ calls[c].entry = "execute" /\ calls[c].pc = "L216"
    /\ LET v == CurMigration(c).version IN
       /\ records' = createMigrationRecord(records, v)
       /\ trace' = Append(trace, Event(c, "createMigrationRecord", <<v>>, 0, TRUE))
    /\ calls' = IF calls[c].mi < Len(calls[c].pending)
                THEN [calls EXCEPT ![c].mi = @ + 1, ![c].pc = "L176"]
                ELSE [calls EXCEPT ![c].pc = "L221"]
    /\ UNCHANGED <<manager, tenants, readdir, upped, reupped>>

\* lines 221-232: await this.currentMigration(mongo) settles; return
ExecFinish(c) ==
    /\ calls[c].entry = "execute" /\ calls[c].pc = "L221"
    /\ calls' = [calls EXCEPT
           ![c].pc = "returned",
           ![c].current = currentMigration(retrieveAllMigrationRecords(records))]
    /\ trace' = Append(trace, ReadEvent(c))
    /\ UNCHANGED <<manager, records, tenants, readdir, upped, reupped>>

\* ------------------------------------------------------------------ Next
Next ==
    \/ ProcessExit
    \/ manager = NoManager /\ \E fileNames \in Listings : NewManager(fileNames)
    \/ TenantAdded
    \/ InvokeSkip
    \/ InvokeExecute
    \/ \E c \in 1..Len(calls) : SkipCurrentMigration(c)
    \/ \E c \in 1..Len(calls) : SkipCreateRecords(c)
    \/ \E c \in 1..Len(calls) : ExecCurrentMigration(c)
    \/ \E c \in 1..Len(calls) : ExecPending(c)
    \/ \E c \in 1..Len(calls) : ExecIterate(c)
    \/ \E c \in 1..Len(calls), ok \in BOOLEAN : ExecUp(c, ok)
    \/ \E c \in 1..Len(calls), ok \in BOOLEAN : ExecTest(c, ok)
    \/ \E c \in 1..Len(calls), ok \in BOOLEAN : ExecDown(c, ok)
    \/ \E c \in 1..Len(calls) : ExecFailedRecord(c)
    \/ \E c \in 1..Len(calls) : ExecCompletedRecord(c)
    \/ \E c \in 1..Len(calls) : ExecFinish(c)

Spec == Init /\ [][Next]_vars

\* ------------------------------------------------------------- re-runs
\* a new process over the same migrations folder: a fresh instance with the
\* same discovered set.  What the last invocation left in memory stays in
\* view until the next one begins.
SameFolder(migrations) ==
    Reverse(Junk \o [i \in 1..Len(migrations) |->
                        UnitFile(migrations[i].version,
                                 [test |-> migrations[i].test,
                                  down |-> migrations[i].down])])

Restart ==
    /\ Quiescent
    /\ manager.ran
    /\ manager' = Constructor(SameFolder(manager.migrations))
    /\ UNCHANGED <<records, tenants, calls, trace, readdir, upped, reupped>>

\* runs of fresh instances, one after the other, over one folder and one
\* record store, with the invocations of up kept in upped and reupped
NextRerun ==
    \/ Restart
    \/ TenantAdded
    \/ InvokeSkip
    \/ InvokeExecute
    \/ \E c \in 1..Len(calls) : SkipCurrentMigration(c)
    \/ \E c \in 1..Len(calls) : SkipCreateRecords(c)
    \/ \E c \in 1..Len(calls) : ExecCurrentMigration(c)
    \/ \E c \in 1..Len(calls) : ExecPending(c)
    \/ \E c \in 1..Len(calls) : ExecIterate(c)
    \/ \E c \in 1..Len(calls), ok \in BOOLEAN : ExecUpCounted(c, ok)
    \/ \E c \in 1..Len(calls), ok \in BOOLEAN : ExecTest(c, ok)
    \/ \E c \in 1..Len(calls), ok \in BOOLEAN : ExecDown(c, ok)
    \/ \E c \in 1..Len(calls) : ExecFailedRecord(c)
    \/ \E c \in 1..Len(calls) : ExecCompletedRecord(c)
    \/ \E c \in 1..Len(calls) : ExecFinish(c)

SpecRerun == Init /\ [][NextRerun]_vars

\* =================================================================
\* Properties
\* =================================================================
Hooks == {"up", "test", "down"}

Writes == {"createMigrationRecord", "createFailedMigrationRecord",
           "createSkippedMigrationRecords"}

Ver(e) == e.versions[1]

\* the positions of the trace that belong to invocation c
EventsOf(c) == {i \in 1..Len(trace) : trace[i].call = c}

HookEvents(c) == {i \in EventsOf(c) : trace[i].op \in Hooks}

WriteEvents(c) == {i \in EventsOf(c) : trace[i].op \in Writes}

\* up or test failed at position i
IsFailure(i) == trace[i].op \in {"up", "test"} /\ ~trace[i].ok

Failures(c) == {i \in EventsOf(c) : IsFailure(i)}

\* hook op ran for (version, tenant) at position i and succeeded
Succeeded(i, c, op, version, tenant) ==
    /\ trace[i].call = c /\ trace[i].op = op /\ trace[i].ok
    /\ Ver(trace[i]) = version /\ trace[i].tenant = tenant

\* the position of a version in the pending sequence of invocation c (0: none)
PendingIndex(c, version) ==
    IF \E k \in 1..Len(calls[c].pending) : calls[c].pending[k].version = version
    THEN CHOOSE k \in 1..Len(calls[c].pending) :
             calls[c].pending[k].version = version
    ELSE 0

\* the unit of a version in the pending sequence of invocation c
PendingUnit(c, version) == calls[c].pending[PendingIndex(c, version)]

\* the last time before position i that invocation c asked for the tenants
IterBefore(c, i) ==
    CHOOSE j \in 1..i : /\ trace[j].call = c /\ trace[j].op = "tenants"
                        /\ \A k \in (j + 1)..i : trace[k].op # "tenants"

StoredVersions(recs) == {recs[i].version : i \in 1..Len(recs)}

\* ---------------------------------------------------------------- C1
\* C1: a completed record for version N is written only after up (and test,
\* when the unit has it) succeeded for every tenant the Tenant Source yielded
\* for N, and no hook of a later pending migration is invoked before the
\* completed record of every earlier pending migration has been written.
C1_CompletedAfterAllTenants ==
    \A c \in 1..Len(calls) :
        /\ \A i \in EventsOf(c) :
               trace[i].op = "createMigrationRecord" =>
                   LET n == Ver(trace[i])
                       yielded == trace[IterBefore(c, i)].yielded
                   IN /\ Ver(trace[IterBefore(c, i)]) = n
                      /\ \A k \in 1..Len(yielded) :
                             /\ \E j \in 1..(i - 1) :
                                    Succeeded(j, c, "up", n, yielded[k])
                             /\ PendingUnit(c, n).test =>
                                    \E j \in 1..(i - 1) :
                                        Succeeded(j, c, "test", n, yielded[k])
        /\ \A j \in HookEvents(c) :
               \A k \in 1..(PendingIndex(c, Ver(trace[j])) - 1) :
                   \E i \in 1..(j - 1) :
                       /\ trace[i].call = c
                       /\ trace[i].op = "createMigrationRecord"
                       /\ Ver(trace[i]) = calls[c].pending[k].version

\* a second pending migration runs its hooks after the first one, which has
\* test, was completed over two tenants
C1_Witness ==
    \E c \in 1..Len(calls) :
        \E i \in EventsOf(c), j \in HookEvents(c) :
            /\ trace[i].op = "createMigrationRecord"
            /\ Len(trace[IterBefore(c, i)].yielded) >= 2
            /\ PendingUnit(c, Ver(trace[i])).test
            /\ i < j
            /\ PendingIndex(c, Ver(trace[j])) > PendingIndex(c, Ver(trace[i]))

\* ---------------------------------------------------------------- C2
HasFailed(recs) == \E i \in 1..Len(recs) : recs[i].status = "failed"

\* an invocation that found a failed record in the store invokes no hook,
\* writes nothing and does not return normally
BlockedByFailed(c) ==
    /\ HookEvents(c) = {}
    /\ WriteEvents(c) = {}
    /\ records = calls[c].store0
    /\ calls[c].pc # "returned"

\* C2 as claimed: once the store holds a failed record, every later
\* invocation of either entry point, on any manager instance, faults without
\* a hook and without a record, and executePendingMigrations faults with the
\* failed-migration-detected condition carrying that record.
C2_AsClaimed ==
    \A c \in 1..Len(calls) :
        HasFailed(calls[c].store0) =>
            /\ BlockedByFailed(c)
            /\ (calls[c].entry = "execute" /\ calls[c].pc = "threw") =>
                   calls[c].result =
                       FailedMigrationDetectedError(FirstFailed(calls[c].store0))

\* C2 (amended): as claimed, except that executePendingMigrations faults with
\* the failed-migration-detected condition on an instance that has not run
\* yet; on an instance that has run it faults with the already-executed
\* error.  skipPendingMigrations faults likewise with the already-executed
\* error or because the store is not empty.
C2_FailedIsTerminal ==
    \A c \in 1..Len(calls) :
        HasFailed(calls[c].store0) =>
            /\ BlockedByFailed(c)
            /\ calls[c].pc = "threw" =>
                   calls[c].result =
                       IF calls[c].ranBefore THEN AlreadyRan
                       ELSE IF calls[c].entry = "execute"
                       THEN FailedMigrationDetectedError(
                                FirstFailed(calls[c].store0))
                       ELSE SkipNotEmpty

\* a fresh instance, with something left pending, was stopped by the failed
\* record an earlier process wrote
C2_Witness ==
    \E c \in 1..Len(calls) :
        /\ calls[c].entry = "execute"
        /\ calls[c].pc = "threw"
        /\ ~calls[c].ranBefore
        /\ calls[c].result.kind = "FailedMigrationDetectedError"
        /\ {m.version : m \in Range(manager.migrations)} \ StoredVersions(records) # {}

\* ---------------------------------------------------------------- C3
Unrecorded(migrations, recs) ==
    {m \in Range(migrations) : m.version \notin StoredVersions(recs)}

StrictlyAscending(seq) ==
    \A i, j \in 1..Len(seq) : i < j => seq[i].version < seq[j].version

\* the frame holds what pending() returned
PendingKnown(c) ==
    /\ calls[c].entry = "execute"
    /\ ~calls[c].ranBefore
    /\ calls[c].pc \notin {"L147", "L150"}
    /\ ~HasFailed(calls[c].store0)

\* C3: with no failed record stored, pending() returns exactly the
\* discovered units whose version has no record of any status, in ascending
\* discovery order, and no hook of a version with a record is invoked.
C3_PendingIsUnrecorded ==
    \A c \in 1..Len(calls) :
        PendingKnown(c) =>
            /\ Range(calls[c].pending) =
                   Unrecorded(manager.migrations, calls[c].store0)
            /\ StrictlyAscending(calls[c].pending)
            /\ \A j \in HookEvents(c) :
                   Ver(trace[j]) \notin StoredVersions(calls[c].store0)

\* discovered {1, 2} with a record for 1 only: version 2 alone is pending
\* and its up has been invoked
C3_Witness ==
    \E c \in 1..Len(calls) :
        /\ PendingKnown(c)
        /\ Len(manager.migrations) = 2
        /\ Len(calls[c].store0) = 1
        /\ Len(calls[c].pending) = 1
        /\ calls[c].pending[1].version = 2
        /\ HookEvents(c) # {}

\* ---------------------------------------------------------------- C4
\* C4: after a first invocation of either entry point on an instance, every
\* later invocation of either faults at once, with no read or write of the
\* record store and no hook invocation, and the ran flag stays true.
C4_OneInvocationPerInstance ==
    /\ Len(calls) > 0 => manager.ran
    /\ \A c \in 1..Len(calls) :
           calls[c].ranBefore =>
               /\ calls[c].pc = "threw"
               /\ calls[c].result = AlreadyRan
               /\ EventsOf(c) = {}
               /\ records = calls[c].store0

\* executePendingMigrations invoked on an instance that has run, while
\* discovered migrations have no record yet
C4_Witness ==
    \E c \in 1..Len(calls) :
        /\ calls[c].ranBefore
        /\ calls[c].entry = "execute"
        /\ Unrecorded(manager.migrations, records) # {}
        /\ ~HasFailed(records)

\* ---------------------------------------------------------------- C5
\* the position of a tenant in a sequence of distinct tenants (0: none)
TenantIndex(yielded, tenant) ==
    IF \E k \in 1..Len(yielded) : yielded[k] = tenant
    THEN CHOOSE k \in 1..Len(yielded) : yielded[k] = tenant
    ELSE 0

\* C5: when up or test fails for tenant tk of t1..tN, the tenants before tk
\* each had up (and test, when the unit has it) and none of them had down;
\* the tenants after tk get no hook; no hook of a later pending migration is
\* invoked; and this run writes no completed record for the version.
C5_FailureStopsTheRun ==
    \A c \in 1..Len(calls) :
        \A f \in Failures(c) :
            LET n == Ver(trace[f])
                yielded == trace[IterBefore(c, f)].yielded
                k == TenantIndex(yielded, trace[f].tenant)
            IN /\ Ver(trace[IterBefore(c, f)]) = n
               /\ k > 0
               /\ \A i \in 1..(k - 1) :
                      /\ \E j \in 1..(f - 1) : Succeeded(j, c, "up", n, yielded[i])
                      /\ PendingUnit(c, n).test =>
                             \E j \in 1..(f - 1) :
                                 Succeeded(j, c, "test", n, yielded[i])
                      /\ ~\E j \in EventsOf(c) :
                             /\ trace[j].op = "down"
                             /\ Ver(trace[j]) = n
                             /\ trace[j].tenant = yielded[i]
               /\ \A i \in (k + 1)..Len(yielded) :
                      ~\E j \in HookEvents(c) :
                          Ver(trace[j]) = n /\ trace[j].tenant = yielded[i]
               /\ \A j \in HookEvents(c) :
                      PendingIndex(c, Ver(trace[j])) <= PendingIndex(c, n)
               /\ \A j \in EventsOf(c) :
                      ~(trace[j].op = "createMigrationRecord" /\ Ver(trace[j]) = n)

\* test fails for the second of three or two tenants, a later migration is
\* pending, and the run has ended
C5_Witness ==
    \E c \in 1..Len(calls) :
        \E f \in Failures(c) :
            /\ trace[f].op = "test"
            /\ TenantIndex(trace[IterBefore(c, f)].yielded, trace[f].tenant) = 2
            /\ PendingIndex(c, Ver(trace[f])) < Len(calls[c].pending)
            /\ calls[c].pc = "threw"

\* ---------------------------------------------------------------- C6
DownEvents(c) == {i \in EventsOf(c) : trace[i].op = "down"}

\* C6: when up or test fails for a tenant, a unit with down has down invoked
\* exactly once in the run, for that tenant, right after the failure and
\* before the failed record; a unit without down has no down invoked; and
\* then (down, if any, having succeeded) a failed record for exactly that
\* version is appended and the caller gets the error up or test raised.
C6_RollbackThenFailedRecord ==
    \A c \in 1..Len(calls) :
        /\ \A d \in DownEvents(c) : d - 1 \in Failures(c)
        /\ \A f \in Failures(c) :
               LET n == Ver(trace[f])
                   t == trace[f].tenant
                   hasDown == PendingUnit(c, n).down
                   rolledBack == /\ f + 1 \in DownEvents(c)
                                 /\ trace[f + 1].ok
                   w == IF hasDown THEN f + 2 ELSE f + 1
               IN /\ hasDown /\ calls[c].pc # "L196" =>
                      /\ DownEvents(c) = {f + 1}
                      /\ Ver(trace[f + 1]) = n
                      /\ trace[f + 1].tenant = t
                  /\ ~hasDown => DownEvents(c) = {}
                  /\ (calls[c].pc = "threw" /\ (hasDown => rolledBack)) =>
                      /\ Len(trace) = w
                      /\ trace[w].op = "createFailedMigrationRecord"
                      /\ Ver(trace[w]) = n
                      /\ records = Append(SubSeq(records, 1, Len(records) - 1),
                                          Record(n, "failed"))
                      /\ {i \in 1..Len(records) : records[i].status = "failed"}
                             = {Len(records)}
                      /\ calls[c].result = HookError(trace[f].op, n, t)

\* up failed for a unit with down in a later pending migration, down then
\* succeeded, and the run has ended
C6_Witness ==
    \E c \in 1..Len(calls) :
        \E f \in Failures(c) :
            /\ calls[c].pc = "threw"
            /\ PendingUnit(c, Ver(trace[f])).down
            /\ trace[f].op = "up"
            /\ trace[f + 1].ok
            /\ Len(records) >= 2

\* ---------------------------------------------------------------- C7
\* the run returned normally with a completed record for every version that
\* was pending
Completed(c) ==
    /\ calls[c].pc = "returned"
    /\ \A k \in 1..Len(calls[c].pending) :
           Record(calls[c].pending[k].version, "completed") \in Range(records)

\* the run faulted and the store holds a failed record for the version whose
\* up or test failed
Aborted(c) ==
    /\ calls[c].pc = "threw"
    /\ \A f \in Failures(c) : Record(Ver(trace[f]), "failed") \in Range(records)

\* C7: every run of executePendingMigrations that began executing hooks ends
\* Completed or Aborted with a failed record persisted: whenever up or test
\* fails, a failed record for that version is in the store by the time the
\* failure reaches the caller, whatever hooks the unit has and whatever the
\* outcome of down.
C7_CompletedOrAborted ==
    \A c \in 1..Len(calls) :
        (Settled(c) /\ HookEvents(c) # {}) =>
            /\ Completed(c) \/ Aborted(c)
            /\ Failures(c) # {} => Aborted(c)

\* ---------------------------------------------------------------- C8
\* C8: skipPendingMigrations on a fresh instance against an empty store
\* appends exactly one skipped record for each discovered version, all in
\* one bulk call, no completed or failed record, and invokes no hook.
C8_SkipMarksEveryMigration ==
    \A c \in 1..Len(calls) :
        (calls[c].entry = "skip" /\ ~calls[c].ranBefore /\ calls[c].store0 = <<>>) =>
            /\ HookEvents(c) = {}
            /\ calls[c].pc # "threw"
            /\ calls[c].pc # "returned" => records = <<>> /\ WriteEvents(c) = {}
            /\ calls[c].pc = "returned" =>
                   /\ Cardinality(WriteEvents(c)) = 1
                   /\ \A w \in WriteEvents(c) :
                          trace[w].op = "createSkippedMigrationRecords"
                   /\ Len(records) = Len(manager.migrations)
                   /\ \A i \in 1..Len(records) : records[i].status = "skipped"
                   /\ \A k \in 1..Len(manager.migrations) :
                          Cardinality({i \in 1..Len(records) :
                              records[i].version = manager.migrations[k].version}) = 1

\* two discovered migrations were marked skipped
C8_Witness ==
    \E c \in 1..Len(calls) :
        /\ calls[c].entry = "skip"
        /\ calls[c].pc = "returned"
        /\ Len(manager.migrations) >= 2
        /\ Len(records) >= 2

\* ---------------------------------------------------------------- C9
\* C9: skipPendingMigrations against a store that holds a record of any
\* status faults, leaves the store unchanged and invokes no hook; the
\* instance is marked as run all the same.
C9_SkipNeedsEmptyStore ==
    \A c \in 1..Len(calls) :
        (calls[c].entry = "skip" /\ calls[c].store0 # <<>>) =>
            /\ records = calls[c].store0
            /\ HookEvents(c) = {}
            /\ WriteEvents(c) = {}
            /\ manager.ran
            /\ calls[c].pc \in {"L118", "threw"}
            /\ (calls[c].pc = "threw" /\ ~calls[c].ranBefore) =>
                   calls[c].result = SkipNotEmpty

\* a fresh instance with a migration that has no record refused to skip
\* over a store that holds one completed record
C9_Witness ==
    \E c \in 1..Len(calls) :
        /\ calls[c].entry = "skip"
        /\ calls[c].pc = "threw"
        /\ calls[c].result = SkipNotEmpty
        /\ Len(records) = 1
        /\ records[1].status = "completed"
        /\ Unrecorded(manager.migrations, records) # {}

\* --------------------------------------------------------------- C10
\* C10: over any sequence of non-overlapping runs, each on a fresh instance
\* with unique discovered versions, the store holds at most one record per
\* version.
C10_OneRecordPerVersion ==
    \A i, j \in 1..Len(records) :
        records[i].version = records[j].version => i = j

\* a skipped and a completed record, of two versions, written by two runs
C10_Witness ==
    /\ \E i \in 1..Len(records) : records[i].status = "skipped"
    /\ \E i \in 1..Len(records) : records[i].status = "completed"

\* --------------------------------------------------------------- C11
\* C11: over any sequence of non-overlapping runs on fresh instances with
\* the same discovered set over one record store, a run ending normally or
\* by the failure of any hook, up is invoked at most once for each
\* (version, tenant) pair.
C11_UpAtMostOnce == reupped = {}

\* --------------------------------------------------------------- C12
\* executePendingMigrations on a fresh instance, the invocation before it
\* (of an instance with the same discovered set) having returned normally
RerunAfterReturn(c) ==
    /\ calls[c].entry = "execute"
    /\ ~calls[c].ranBefore
    /\ calls[c].prev = "returned"

\* C12: after executePendingMigrations or skipPendingMigrations returned
\* normally, executePendingMigrations on a fresh instance with the same
\* discovered set over the same store finds nothing pending, invokes no
\* hook, appends no record and returns normally.
C12_RerunIsIdempotent ==
    \A c \in 1..Len(calls) :
        RerunAfterReturn(c) =>
            /\ calls[c].pc \in {"L147", "L150", "returned"}
            /\ calls[c].pending = <<>>
            /\ Unrecorded(manager.migrations, calls[c].store0) = {}
            /\ HookEvents(c) = {}
            /\ WriteEvents(c) = {}
            /\ records = calls[c].store0

\* the re-run has returned, over a store of two records that a run of
\* executePendingMigrations left
C12_Witness ==
    \E c \in 1..Len(calls) :
        /\ RerunAfterReturn(c)
        /\ calls[c].pc = "returned"
        /\ Len(records) = 2
        /\ \A i \in 1..Len(records) : records[i].status = "completed"

\* --------------------------------------------------------------- C13
\* the events of invocation c with operation op, in the order they happened
SelectOp(c, op) == SelectSeq(trace, LAMBDA e : e.call = c /\ e.op = op)

\* the (version, tenant) pairs of a sequence of hook events
Pairs(events) == [k \in 1..Len(events) |-> <<Ver(events[k]), events[k].tenant>>]

\* versions x tenants, in lexicographic order
Product(versions, yielded) ==
    [k \in 1..(Len(versions) * Len(yielded)) |->
        <<versions[((k - 1) \div Len(yielded)) + 1],
          yielded[((k - 1) % Len(yielded)) + 1]>>]

IsPrefix(s, t) == Len(s) <= Len(t) /\ s = SubSeq(t, 1, Len(s))

AllHooksSucceed(c) == \A i \in HookEvents(c) : trace[i].ok

\* every time invocation c asked, the Tenant Source yielded the same tenants
FixedTenants(c) ==
    \A i, j \in EventsOf(c) :
        trace[i].op = "tenants" /\ trace[j].op = "tenants" =>
            trace[i].yielded = trace[j].yielded

InFlight(c) == calls[c].pc \in {"L184", "L188", "L196"}

\* C13: in a run of executePendingMigrations where every hook succeeds and
\* the tenant set is fixed, up is invoked once per (pending migration,
\* tenant) pair, version ascending and then in Tenant Source order, never two
\* hooks in flight at once; the completed records are appended in ascending
\* version order, one per pending migration.
C13_LexicographicOrder ==
    /\ Cardinality({c \in 1..Len(calls) : InFlight(c)}) <= 1
    /\ \A c \in 1..Len(calls) :
        PendingKnown(c) /\ AllHooksSucceed(c) /\ FixedTenants(c) =>
            LET versions == SkipVersions(calls[c].pending)
                asked == SelectOp(c, "tenants")
                yielded == IF asked = <<>> THEN <<>> ELSE asked[1].yielded
                ups == Pairs(SelectOp(c, "up"))
                written == SelectOp(c, "createMigrationRecord")
                done == [k \in 1..Len(written) |-> Ver(written[k])]
            IN /\ \A i, j \in 1..Len(versions) : i < j => versions[i] < versions[j]
               /\ IsPrefix(ups, Product(versions, yielded))
               /\ IsPrefix(done, versions)
               /\ records = calls[c].store0
                              \o [k \in 1..Len(done) |-> Record(done[k], "completed")]
               /\ calls[c].pc = "returned" =>
                      /\ ups = Product(versions, yielded)
                      /\ done = versions

\* two pending migrations went up for two tenants each and the run returned
C13_Witness ==
    \E c \in 1..Len(calls) :
        /\ PendingKnown(c) /\ AllHooksSucceed(c) /\ FixedTenants(c)
        /\ calls[c].pc = "returned"
        /\ Len(SelectOp(c, "up")) = 4
        /\ Len(records) = 2

\* --------------------------------------------------------------- C14
\* position i is followed at once by test for the same migration and tenant,
\* or that test is the hook now in flight
TestFollows(c, i) ==
    IF i = Len(trace)
    THEN calls[c].pc = "L188"
    ELSE /\ trace[i + 1].call = c
         /\ trace[i + 1].op = "test"
         /\ Ver(trace[i + 1]) = Ver(trace[i])
         /\ trace[i + 1].tenant = trace[i].tenant

\* C14: for a unit that exposes test, test(tenant) is invoked if and only if
\* up(tenant) has just succeeded for the same migration and tenant, with no
\* other hook or record write between the two; test is never invoked for a
\* tenant whose up failed, and a unit without test has no test invocation.
C14_TestIffUpSucceeded ==
    \A c \in 1..Len(calls) :
        /\ \A i \in EventsOf(c) :
               trace[i].op = "test" =>
                   /\ i > 1
                   /\ Succeeded(i - 1, c, "up", Ver(trace[i]), trace[i].tenant)
                   /\ PendingUnit(c, Ver(trace[i])).test
        /\ \A i \in EventsOf(c) :
               trace[i].op = "up" =>
                   (TestFollows(c, i) <=>
                        trace[i].ok /\ PendingUnit(c, Ver(trace[i])).test)
        /\ calls[c].pc = "L188" =>
               /\ trace # <<>>
               /\ Succeeded(Len(trace), c, "up",
                            CurMigration(c).version, CurTenant(c))
               /\ CurMigration(c).test

\* one run in which a unit with test had test after up, a unit without test
\* went up with no test, and an up failed
C14_Witness ==
    \E c \in 1..Len(calls) :
        \E i, j, k \in EventsOf(c) :
            /\ trace[i].op = "test"
            /\ trace[j].op = "up" /\ trace[j].ok
            /\ ~PendingUnit(c, Ver(trace[j])).test
            /\ trace[k].op = "up" /\ ~trace[k].ok

\* --------------------------------------------------------------- C15
\* the positions at which invocation c asked the Tenant Source
Asked(c) == {i \in EventsOf(c) : trace[i].op = "tenants"}

\* C15: the tenant sequence is requested afresh for each pending migration
\* and is not cached: each pending migration that is begun asks once, gets
\* what the Tenant Source holds at that time (the source changes only while
\* no hook of the run is in flight) and runs its hooks over exactly those
\* tenants; a tenant added between N and N+1 gets up for N+1 and not for N.
C15_TenantsAskedPerMigration ==
    \A c \in 1..Len(calls) :
        \A i \in Asked(c) :
            LET n == Cardinality({j \in Asked(c) : j <= i})
                yielded == trace[i].yielded
            IN /\ n <= Len(calls[c].pending)
               /\ Ver(trace[i]) = calls[c].pending[n].version
               /\ (n = Cardinality(Asked(c)) /\ calls[c].pc # "L176") =>
                      /\ yielded = tenants
                      /\ calls[c].iter = yielded
               /\ \A j \in HookEvents(c) :
                      IterBefore(c, j) = i =>
                          /\ Ver(trace[j]) = Ver(trace[i])
                          /\ trace[j].tenant \in Range(yielded)
               /\ \A j \in EventsOf(c) :
                      (trace[j].op = "createMigrationRecord" /\ IterBefore(c, j) = i) =>
                          \A t \in Range(yielded) :
                              \E k \in (i + 1)..(j - 1) :
                                  Succeeded(k, c, "up", Ver(trace[i]), t)

\* a tenant was added between two pending migrations: the second one went up
\* for it, the first one never did and has its completed record
C15_Witness ==
    \E c \in 1..Len(calls) :
        \E i, j \in Asked(c) :
            /\ i < j
            /\ Len(trace[j].yielded) > Len(trace[i].yielded)
            /\ trace[i].yielded # <<>>
            /\ \E k \in EventsOf(c) :
                   /\ trace[k].op = "up"
                   /\ Ver(trace[k]) = Ver(trace[j])
                   /\ trace[k].tenant \notin Range(trace[i].yielded)
            /\ \E k \in EventsOf(c) :
                   /\ trace[k].op = "createMigrationRecord"
                   /\ Ver(trace[k]) = Ver(trace[i])
            /\ ~\E k \in HookEvents(c) :
                   /\ Ver(trace[k]) = Ver(trace[i])
                   /\ trace[k].tenant \notin Range(trace[i].yielded)

\* --------------------------------------------------------------- C16
\* the positions at which a record was written
Written == {i \in 1..Len(trace) : trace[i].op \in Writes /\ trace[i].versions # <<>>}

\* the record the write at position i left at the end of the store
RecordOf(i) ==
    Record(Last(trace[i].versions),
           CASE trace[i].op = "createMigrationRecord" -> "completed"
             [] trace[i].op = "createFailedMigrationRecord" -> "failed"
             [] OTHER -> "skipped")

LastWritten == RecordOf(CHOOSE i \in Written : \A j \in Written : j <= i)

CurrentIsLastWritten ==
    /\ Written # {} => currentMigration(retrieveAllMigrationRecords(records)) = LastWritten
    /\ \A c \in 1..Len(calls) :
           (calls[c].entry = "execute" /\ calls[c].pc = "returned"
                /\ calls[c].pending # <<>>) =>
               /\ calls[c].current = Last(records)
               /\ calls[c].current = LastWritten

\* C16: the record store is append-only with respect to the engine: every
\* step leaves the stored record sequence unchanged or extends it at the
\* end, so currentMigration() (the last record in stored order, or none when
\* empty) is always the most recently written record.
C16_AppendOnly ==
    /\ [][IsPrefix(records, records')]_vars
    /\ [](CurrentIsLastWritten)

\* a run over a store that held a record already wrote another one and
\* returned it as the current migration
C16_Witness ==
    \E c \in 1..Len(calls) :
        /\ calls[c].entry = "execute" /\ calls[c].pc = "returned"
        /\ calls[c].store0 # <<>>
        /\ Len(records) >= Len(calls[c].store0) + 1
        /\ calls[c].current = Last(records)

\* =================================================================
\* Construction alone
\* =================================================================
\* the names a migrations folder may hold: unit files whose digit run is a
\* version with or without a leading zero, a source map, a file with no
\* digit run
CtorFiles ==
    {File(digits, "ts", test, FALSE) :
        digits \in {<<v>> : v \in Versions} \cup {<<0, v>> : v \in Versions},
        test \in BOOLEAN}
    \cup Range(Junk)

\* what fs.readdirSync may return: any files in any order
CtorListings == UNION {[1..n -> CtorFiles] : n \in 0..MaxFiles}

InitCtor ==
    /\ manager = NoManager
    /\ readdir \in CtorListings
    /\ records = <<>>
    /\ tenants = <<>>
    /\ calls = <<>>
    /\ trace = <<>>
    /\ upped = {}
    /\ reupped = {}

\* new Manager(tenants) over the listing
Construct ==
    /\ manager = NoManager
    /\ manager' = Constructor(readdir)
    /\ UNCHANGED <<records, tenants, calls, trace, readdir, upped, reupped>>

NextCtor == Construct

SpecCtor == InitCtor /\ [][NextCtor]_vars

\* --------------------------------------------------------------- C17
Count(seq, x) == Cardinality({i \in 1..Len(seq) : seq[i] = x})

\* how many files of the listing load as unit m
Loaded(fileNames, m) ==
    Cardinality({i \in 1..Len(fileNames) :
                    fileNamePattern(fileNames[i]) /\ Migration(fileNames[i]) = m})

Units(fileNames) ==
    {Migration(fileNames[i]) : i \in {j \in 1..Len(fileNames) :
                                         fileNamePattern(fileNames[j])}}

\* C17: after construction, the migrations list is a permutation of all the
\* loaded units in non-decreasing version order, whatever the order of the
\* enumeration; units with equal versions are all retained.
C17_SortedPermutation ==
    manager # NoManager =>
        /\ \A i, j \in 1..Len(manager.migrations) :
               i < j => manager.migrations[i].version <= manager.migrations[j].version
        /\ \A m \in Units(readdir) \cup Range(manager.migrations) :
               Count(manager.migrations, m) = Loaded(readdir, m)
        /\ ~manager.ran

\* a listing that names version 2 before two different units of version 1,
\* among a file that is no migration
C17_Witness ==
    /\ manager # NoManager
    /\ Len(manager.migrations) = 3
    /\ Len(readdir) = 4
    /\ manager.migrations[1].version = manager.migrations[2].version
    /\ manager.migrations[1] # manager.migrations[2]
    /\ \E i, j \in 1..Len(readdir) :
           /\ i < j
           /\ fileNamePattern(readdir[i]) /\ fileNamePattern(readdir[j])
           /\ parseInt(readdir[i].digits) > parseInt(readdir[j].digits)

\* --------------------------------------------------------------- C18
\* the positions at which invocation c wrote a failed record
FailedWrites(c) ==
    {i \in EventsOf(c) : trace[i].op = "createFailedMigrationRecord"}

\* C18: at every point of a run of executePendingMigrations, the versions
\* for which the run has written a completed record form a prefix of the
\* pending sequence computed at its start; a failed record is written only
\* for the first pending version without a completed record, at most one per
\* run, and nothing is written or invoked after it.
C18_PrefixThenOneFailure ==
    \A c \in 1..Len(calls) :
        calls[c].entry = "execute" =>
            LET versions == SkipVersions(calls[c].pending)
                written == SelectOp(c, "createMigrationRecord")
                done == [k \in 1..Len(written) |-> Ver(written[k])]
            IN /\ IsPrefix(done, versions)
               /\ Cardinality(FailedWrites(c)) <= 1
               /\ \A i \in FailedWrites(c) :
                      /\ Len(done) < Len(versions)
                      /\ Ver(trace[i]) = versions[Len(done) + 1]
                      /\ \A j \in EventsOf(c) : j <= i
                      /\ calls[c].pc = "threw"
                      /\ records = Append(calls[c].store0 \o
                                     [k \in 1..Len(done) |-> Record(done[k], "completed")],
                                     Record(Ver(trace[i]), "failed"))

\* the second pending migration failed after the first was completed
C18_Witness ==
    \E c \in 1..Len(calls) :
        \E i \in FailedWrites(c) :
            /\ Len(SelectOp(c, "createMigrationRecord")) = 1
            /\ Ver(trace[i]) = calls[c].pending[2].version

\* --------------------------------------------------------------- C19
\* version v has a completed record and up was never invoked for it
CompletedUntouched(v) ==
    /\ \E i \in 1..Len(records) : records[i] = Record(v, "completed")
    /\ \A t \in 1..MaxTenants : <<v, t>> \notin upped

VacuousCompletion ==
    \A c \in 1..Len(calls) :
        \A i \in Asked(c) :
            trace[i].yielded = <<>> =>
                /\ \A j \in HookEvents(c) : Ver(trace[j]) # Ver(trace[i])
                /\ IF i = Len(trace)
                   THEN calls[c].pc = "L216"
                   ELSE /\ trace[i + 1].call = c
                        /\ trace[i + 1].op = "createMigrationRecord"
                        /\ Ver(trace[i + 1]) = Ver(trace[i])

\* C19: when the Tenant Source yields no tenant for a pending migration, no
\* hook of that migration is invoked and its completed record is appended
\* all the same; from then on, in this run and in the runs of later
\* instances, the migration is never run for the tenants that appear.
C19_VacuousCompletionIsFinal ==
    /\ [](VacuousCompletion)
    /\ [][\A v \in Versions :
             CompletedUntouched(v) => \A t \in 1..MaxTenants : <<v, t>> \notin upped']_vars

\* version 1 was completed with no tenant; tenants appeared and went up for
\* another migration; a later instance ran and left version 1 as it was
C19_Witness ==
    \E c \in 1..Len(calls) :
        /\ RerunAfterReturn(c) /\ calls[c].pc = "returned"
        /\ CompletedUntouched(1)
        /\ tenants # <<>>
        /\ upped # {}

\* =================================================================
\* Overlapping invocations on one instance
\* =================================================================
\* an entry point invoked while earlier invocations are suspended at an await
RoomForCall == Quiescent \/ Len(calls) < MaxCalls

OverlapSkip == RoomForCall /\ EnterSkip

OverlapExecute == RoomForCall /\ EnterExecute

\* (the Tenant Source keeps its tenants: the guard does not look at them)
NextOverlap ==
    \/ OverlapSkip
    \/ OverlapExecute
    \/ \E c \in 1..Len(calls) : SkipCurrentMigration(c)
    \/ \E c \in 1..Len(calls) : SkipCreateRecords(c)
    \/ \E c \in 1..Len(calls) : ExecCurrentMigration(c)
    \/ \E c \in 1..Len(calls) : ExecPending(c)
    \/ \E c \in 1..Len(calls) : ExecIterate(c)
    \/ \E c \in 1..Len(calls), ok \in BOOLEAN : ExecUp(c, ok)
    \/ \E c \in 1..Len(calls), ok \in BOOLEAN : ExecTest(c, ok)
    \/ \E c \in 1..Len(calls), ok \in BOOLEAN : ExecDown(c, ok)
    \/ \E c \in 1..Len(calls) : ExecFailedRecord(c)
    \/ \E c \in 1..Len(calls) : ExecCompletedRecord(c)
    \/ \E c \in 1..Len(calls) : ExecFinish(c)

SpecOverlap == Init /\ [][NextOverlap]_vars

\* --------------------------------------------------------------- C20
\* invocation c got past the already-ran guard
Passed(c) == ~(calls[c].pc = "threw" /\ calls[c].result = AlreadyRan)

OnePassesTheGuard ==
    /\ Cardinality({c \in 1..Len(calls) : Passed(c)}) <= 1
    /\ Len(calls) >= 2 => \E c \in 1..Len(calls) : Passed(c)
    /\ \A c \in 1..Len(calls) :
           /\ Passed(c) => manager.ran /\ ~calls[c].ranBefore
           /\ ~Passed(c) => /\ EventsOf(c) = {}
                            /\ calls[c].ranBefore
                            /\ calls[c].pending = <<>>
                            /\ calls[c].current = NoRecord
    /\ \A i \in 1..Len(trace) : Passed(trace[i].call)

\* C20: the already-ran check and the setting of the flag have no suspension
\* point between them: of the invocations that overlap on one instance
\* exactly one passes the guard and the others fault before any store read,
\* store write or hook; ran goes from false to true once and never back.
C20_GuardIsAtomic ==
    /\ [](OnePassesTheGuard)
    /\ [][manager.ran => manager'.ran]_vars
    /\ [][\A c \in 1..Len(calls) :
             (c <= Len(calls') /\ calls'[c] = calls[c] /\ ~Passed(c)) =>
                 (trace' = trace \/ trace'[Len(trace')].call # c)]_vars

\* an invocation faulted on the guard while another one was suspended in a
\* hook; that one went on and returned
C20_Witness ==
    /\ Len(calls) = 2
    /\ calls[1].pc = "returned"
    /\ HookEvents(1) # {}
    /\ ~Passed(2)
    /\ calls[2].prev \in {"L184", "L188"}

====
